---- MODULE Spec2Model ----
(***************************************************************************)
(* Model of the futex benchmark (the Futex<spinCount> spin lock, the       *)
(* check_func workers, performance_test, all_timings, line_test, main).    *)
(*                                                                         *)
(* Two specifications share every action:                                  *)
(*   Spec         every read of shared_data returns the latest value       *)
(*                written (sequentially consistent interleaving of the     *)
(*                non-atomic read and write of shared_data[pos]++);        *)
(*   SpecRelaxed  the memory orders are those the source passes to the     *)
(*                atomics: a read inside the critical section may return   *)
(*                the value the reading thread saw last, unless the lock   *)
(*                acquisition synchronised with the previous release.      *)
(*                                                                         *)
(* SpecString is a client of the VariantString class of the vstring       *)
(* programs; the benchmark state is idle in it, and the string state is    *)
(* idle in the specifications of the benchmark.                            *)
(*                                                                         *)
(* TLC integers are 32-bit signed, so an unsigned int of the program is a  *)
(* pair <<hi, lo>> of 16-bit halves.                                       *)
(***************************************************************************)
EXTENDS Integers, Sequences, FiniteSets, TLC

(* ------------------------------ bounds -------------------------------- *)

\* threadCount runs from 1 to MaxThreads in generate_tests (16 in the source).
MaxThreads == 2

\* parms.first of the first group of lparms (10000000 in the source).
BaseWork == 4

\* parms.second of the second group of lparms (50 in the source).
BusyWork == 1

\* Number of sampled positions, CHANGE_COUNT (0x10 in the source).
ChangeCount == 2

\* shared_data.size() / CHANGE_COUNT (0x100000 / 0x10 in the source).
Stride == 2

\* Template argument of sl_futex (0x40 in the source).
SlSpin == 2

\* Largest elapsed time, in milliseconds, a run reports.
MaxElapsed == 1

(* ------------------------- unsigned int (32 bit) ----------------------- *)

Half == 65536

U32(n) == << n \div Half, n % Half >>

\* --sc on an unsigned int: 0 wraps to 0xFFFFFFFF.
U32Dec(u) ==
    IF u[2] > 0 THEN << u[1], u[2] - 1 >>
    ELSE << (u[1] + Half - 1) % Half, Half - 1 >>

U32Zero == << 0, 0 >>

DRY_RUN == << Half - 1, Half - 1 >>

(* ---------------------------- VariantString ---------------------------- *)
(* The class of the vstring programs (C++17 and C++98 style).  A string   *)
(* object is a record: char_size is sizeof(BaseString::value_type) of its  *)
(* StringModel and m_base the sequence of the stored value_type, each as   *)
(* the bit pattern <<0, bits>> (or any <<hi, lo>> when value_type is       *)
(* uint32_t).  A uint32_t character is a pair <<hi, lo>>.                  *)

\* Longest string the client builds.
MaxLen == 3

\* 0x100: the number of values of a char.
Byte == 256

\* The bound of the positive values of a signed char.
SignBit == 128

\* std::string::npos, the largest size_t; the largest integer of the model
\* stands for it.
npos == 2147483647

\* char_value >= 0x10000U and char_value >= 0x100U of refit_if_too_large.
AtLeast10000(v) == v[1] >= 1

AtLeast100(v) == v[1] >= 1 \/ v[2] >= Byte

\* The language and compiler choices the value of an expression depends on:
\* the standard of the source file, whether a plain char is signed, and
\* whether the copies of a returned or copy-initialised iterator are elided
\* (C++17 guarantees that; C++98 leaves it to the compiler).
Builds ==
    { b \in [ std : { "c++17", "c++98" }, char_signed : BOOLEAN,
              elide : BOOLEAN ] : b.std = "c++17" => b.elide }

\* static_cast<typename BaseString::value_type>(v): the low bits are kept.
StoreCast(width, v) ==
    CASE width = 4 -> v
      [] width = 2 -> << 0, v[2] >>
      [] width = 1 -> << 0, v[2] % Byte >>

\* static_cast<uint32_t>(m_base->at(pos)): a negative char is sign extended.
LoadCast(width, bits, b) ==
    IF width = 1 /\ b.char_signed /\ bits[2] >= SignBit
    THEN << Half - 1, Half - Byte + bits[2] >>
    ELSE bits

\* make_properly_fitted_string(char_size), for the three known sizes.
make_properly_fitted_string(cs) == [ char_size |-> cs, m_base |-> << >> ]

\* VariantString(): a StringModel<std::string>.
DefaultString == make_properly_fitted_string(1)

size(s) == Len(s.m_base)

\* m_base->at(pos) does not throw std::out_of_range.
InRange(s, p) == p < size(s)

\* StringModel::get_at, for a position in range.
get_at(s, p, b) == LoadCast(s.char_size, s.m_base[p + 1], b)

\* StringModel::set_at, for a position in range.
model_set_at(s, p, v) ==
    [ s EXCEPT !.m_base[p + 1] = StoreCast(s.char_size, v) ]

\* StringModel::push_back.
model_push_back(s, v) ==
    [ s EXCEPT !.m_base = Append(@, StoreCast(s.char_size, v)) ]

\* adopt_model: the model is resized to the size of m_string and every
\* position is set to what get_at returns for it; m_string is the model then.
adopt_model(s, model, b) ==
    [ char_size |-> model.char_size,
      m_base |-> [ k \in 1 .. size(s) |->
                     StoreCast(model.char_size, get_at(s, k - 1, b)) ] ]

refit_if_too_large(s, char_value, b) ==
    IF AtLeast10000(char_value) /\ s.char_size < 4
    THEN adopt_model(s, make_properly_fitted_string(4), b)
    ELSE IF AtLeast100(char_value) /\ s.char_size < 2
         THEN adopt_model(s, make_properly_fitted_string(2), b)
         ELSE s

\* VariantString::push_back(uint32_t chr).
push_back(s, chr, b) == model_push_back(refit_if_too_large(s, chr, b), chr)

\* The last call of the client: the member function and its arguments
\* (pos, len and chr where the function has them).
Call(op, p, len, chr) == [ op |-> op, pos |-> p, len |-> len, chr |-> chr ]

NoCall == Call("none", 0, 0, U32Zero)

\* What a member function returned or threw.
Returned(v) == [ thrown |-> "none", value |-> v ]

Thrown(e) == [ thrown |-> e, value |-> DefaultString ]

\* VariantString::set_at(size_t pos, uint32_t chr): the string after the
\* call; m_base->at(pos) throws after refit_if_too_large has run.
set_at(s, p, chr, b) ==
    IF InRange(s, p) THEN model_set_at(refit_if_too_large(s, chr, b), p, chr)
    ELSE refit_if_too_large(s, chr, b)

\* m_pos of an iterator that was returned by value or copy-initialised: the
\* copy constructor of the C++98 iterator sets m_pos to 0.
Copied(m_pos, b) == IF b.std = "c++98" /\ ~b.elide THEN 0 ELSE m_pos

\* for(; iter != iend; ++iter) {nstr.push_back(*iter);} return nstr;
\* operator* calls get_at, which throws for a position past the end.
RECURSIVE CopyRange(_, _, _, _, _)
CopyRange(s, nstr, iter, iend, b) ==
    IF iter = iend THEN Returned(nstr)
    ELSE IF ~InRange(s, iter) THEN Thrown("out_of_range")
    ELSE CopyRange(s, push_back(nstr, get_at(s, iter, b), b), iter + 1,
                   iend, b)

\* if(len > size()) len = size() - pos;
ClampLen(s, p, len) == IF len > size(s) THEN size(s) - p ELSE len

\* VariantString::substr(size_t pos, size_t len).
substr(s, p, len, b) ==
    IF p > size(s) THEN Thrown("invalid_argument")
    ELSE IF len = 0 THEN Returned(DefaultString)
    ELSE CopyRange(s, make_properly_fitted_string(s.char_size),
                   Copied(p, b), Copied(p + ClampLen(s, p, len), b), b)

(* ------------------------------ the locks ------------------------------ *)

\* The lock objects all_timings declares.
Futexes == { "dry", "futex", "yield_futex", "sl_futex" }

Locks == Futexes \cup { "mutex" }

\* Mutant: dry is declared Futex<>, i.e. with the default spinCount = 0.
spinCountDryDefault(l) ==
    CASE l = "dry"         -> U32(0)
      [] l = "futex"       -> U32(0)
      [] l = "yield_futex" -> U32(1)
      [] l = "sl_futex"    -> U32(SlSpin)

\* The template argument of each Futex object.
spinCount(l) ==
    CASE l = "dry"         -> DRY_RUN
      [] l = "futex"       -> U32(0)
      [] l = "yield_futex" -> U32(1)
      [] l = "sl_futex"    -> U32(SlSpin)

\* The memory orders the source passes.
LockSuccessOrder == "release"

LockFailureOrder == "relaxed"

UnlockOrder == "release"

IsAcquire(order) == order \in { "acquire", "acq_rel", "seq_cst" }

IsRelease(order) == order \in { "release", "acq_rel", "seq_cst" }

\* Whether a successful lock() of l synchronises with the unlock() before it.
Synchronises(l) ==
    IF l = "mutex" THEN TRUE
    ELSE IF spinCount(l) = DRY_RUN THEN FALSE
    ELSE IsAcquire(LockSuccessOrder) /\ IsRelease(UnlockOrder)

\* Mutant: expected is overwritten after a success as well, with the value
\* now stored.
compare_exchange_loads_always(mem, expected, desired, spurious) ==
    IF mem = expected /\ ~spurious
    THEN [ ok |-> TRUE, mem |-> desired, expected |-> desired ]
    ELSE [ ok |-> FALSE, mem |-> mem, expected |-> mem ]

\* Mutant: an exchange whose result is tested afterwards; it stores desired
\* even when it reports failure.
compare_exchange_store_always(mem, expected, desired, spurious) ==
    [ ok |-> (mem = expected) /\ ~spurious, mem |-> desired, expected |-> mem ]

\* Mutant: an exchange that stores desired whatever the atomic holds.
exchange_unconditional(mem, expected, desired, spurious) ==
    [ ok |-> TRUE, mem |-> desired, expected |-> expected ]

\* m_owned.compare_exchange_weak(expected, desired): the result, the new
\* value of the atomic and the new value of expected.  A weak exchange may
\* fail although the atomic holds the expected value.
compare_exchange_weak(mem, expected, desired, spurious) ==
    IF mem = expected /\ ~spurious
    THEN [ ok |-> TRUE,  mem |-> desired, expected |-> expected ]
    ELSE [ ok |-> FALSE, mem |-> mem,     expected |-> mem ]

\* Mutant: !isOwned in place of isOwned in the condition of the while loop.
LoopAgainNotOwned(r) == ~r.ok /\ ~r.expected

\* Mutant: && in place of || in the condition of the while loop.
LoopAgainAnd(r) == ~r.ok /\ r.expected

\* The condition of the while loop of lock().
LoopAgain(r) == ~r.ok \/ r.expected

\* Mutant: sc-- == 0 in place of --sc == 0.
SpinBodyPostDecrement(sp, s) ==
    IF sp = U32(1) THEN [ sc |-> s, yield |-> TRUE ]
    ELSE IF sp # U32Zero
         THEN [ sc |-> U32Dec(s), yield |-> s = U32Zero ]
         ELSE [ sc |-> s, yield |-> FALSE ]

\* Mutant: spinCount <= 1 in place of spinCount == 1.
SpinBodyAtMostOne(sp, s) ==
    IF sp = U32(1) \/ sp = U32Zero THEN [ sc |-> s, yield |-> TRUE ]
    ELSE [ sc |-> U32Dec(s), yield |-> U32Dec(s) = U32Zero ]

\* Mutant: the body without its spinCount == 1 case.
SpinBodyCountOnly(sp, s) ==
    IF sp # U32Zero
    THEN [ sc |-> U32Dec(s), yield |-> U32Dec(s) = U32Zero ]
    ELSE [ sc |-> s, yield |-> FALSE ]

\* The body of the while loop of lock(): the new sc and whether it yields.
SpinBody(sp, s) ==
    IF sp = U32(1) THEN [ sc |-> s, yield |-> TRUE ]
    ELSE IF sp # U32Zero
         THEN [ sc |-> U32Dec(s), yield |-> U32Dec(s) = U32Zero ]
         ELSE [ sc |-> s, yield |-> FALSE ]

(* ------------------------------ the sweep ------------------------------ *)

lparms == << << BaseWork, 0 >>, << BaseWork - 1, BusyWork >> >>

\* Mutant: threadCount < n in place of threadCount <= n.
RECURSIVE PushGroupExclusive(_, _, _, _)
PushGroupExclusive(tests, parms, threadCount, n) ==
    IF threadCount < n
    THEN PushGroupExclusive(
             Append(tests, [ threadCount |-> threadCount,
                             perfCount |-> parms[1] \div threadCount,
                             outOfBusyLoopCount |-> parms[2] ]),
             parms, threadCount + 1, n)
    ELSE tests

\* generate_tests(): the inner loop, for (threadCount; threadCount <= n;
\* ++threadCount) tests.push_back({threadCount, parms.first / threadCount,
\* parms.second}); n is 16 in the source.
RECURSIVE PushGroup(_, _, _, _)
PushGroup(tests, parms, threadCount, n) ==
    IF threadCount <= n
    THEN PushGroup(
             Append(tests, [ threadCount |-> threadCount,
                             perfCount |-> parms[1] \div threadCount,
                             outOfBusyLoopCount |-> parms[2] ]),
             parms, threadCount + 1, n)
    ELSE tests

\* generate_tests(): the loop over the groups.
RECURSIVE PushAll(_, _, _)
PushAll(tests, groups, n) ==
    IF groups = << >> THEN tests
    ELSE PushAll(PushGroup(tests, Head(groups), 1, n), Tail(groups), n)

\* generate_tests() at the bounds of the model.
generate_tests == PushAll(<< >>, lparms, MaxThreads)

\* Mutant: std::mutex is measured first.
RunsMutexFirst(dry) ==
    IF dry THEN << [ dry |-> TRUE, mutex |-> "dry" ] >>
    ELSE << [ dry |-> FALSE, mutex |-> "mutex" ],
            [ dry |-> FALSE, mutex |-> "futex" ],
            [ dry |-> FALSE, mutex |-> "yield_futex" ],
            [ dry |-> FALSE, mutex |-> "sl_futex" ] >>

\* Mutant: the dry run is verified like the others.
RunsAllVerified(dry) ==
    IF dry THEN << [ dry |-> FALSE, mutex |-> "dry" ] >>
    ELSE << [ dry |-> FALSE, mutex |-> "futex" ],
            [ dry |-> FALSE, mutex |-> "yield_futex" ],
            [ dry |-> FALSE, mutex |-> "sl_futex" ],
            [ dry |-> FALSE, mutex |-> "mutex" ] >>

\* The performance_test calls of all_timings, in order.
Runs(dry) ==
    IF dry THEN << [ dry |-> TRUE, mutex |-> "dry" ] >>
    ELSE << [ dry |-> FALSE, mutex |-> "futex" ],
            [ dry |-> FALSE, mutex |-> "yield_futex" ],
            [ dry |-> FALSE, mutex |-> "sl_futex" ],
            [ dry |-> FALSE, mutex |-> "mutex" ] >>

DataSize == ChangeCount * Stride

Threads == 1 .. MaxThreads

\* Failed attempts of one lock() call that are followed: enough for sl_futex
\* to spin SlSpin times twice.
MaxFails == 2 * SlSpin

VARIABLES
    relaxed,      \* TRUE under SpecRelaxed
    dry_run,      \* main: argc > 1
    tp,           \* main: index of the current element of tests
    mpc,          \* the main thread's position
    run,          \* all_timings: index of the current performance_test call
    timings,      \* all_timings: the timings returned so far (see Elapsed)
    out,          \* std::cout: the fields of the current line
    what,         \* the what() of the exception thrown, NoMessage if none
    exit_code,    \* "running", "0" or "abort"
    m_owned,      \* Futex::m_owned of every Futex object
    mutex_locked, \* the state of the std::mutex
    shared_data,  \* performance_test: the vector
    spawned,      \* performance_test: threads emplaced so far
    joined,       \* performance_test: threads joined so far
    pc,           \* every worker's position
    i,            \* check_func: i
    j,            \* check_func: j
    pos,          \* check_func: pos
    val,          \* the value read by shared_data[pos]++
    counter,      \* futex-test.cpp, check_func: counter
    sc,           \* Futex::lock: sc
    fails,        \* failed attempts of the current lock() call
    yields,       \* yields of the current lock() call
    cache,        \* what every worker last saw of shared_data
    overlap,      \* two workers were between lock() and unlock() at once
    build,        \* vstring: what the compiler chose where the language lets it
    m_string,     \* vstring: the VariantString the client works on
    call,         \* vstring: the last member function called, with arguments
    ret           \* vstring: what that call returned or threw

mainVars == << dry_run, tp, mpc, run, timings, out, what, exit_code >>

runVars == << shared_data, spawned, joined >>

lockVars == << m_owned, mutex_locked >>

workerVars == << pc, i, j, pos, val, counter, sc, fails, yields, cache,
                overlap >>

stringVars == << build, m_string, call, ret >>

vars == << relaxed, mainVars, runVars, lockVars, workerVars, stringVars >>

\* The current test_params and performance_test call.
Test == generate_tests[tp]

Cur == Runs(dry_run)[run]

ZeroData == [ p \in 0 .. (DataSize - 1) |-> 0 ]


(* ------------------------------- workers ------------------------------- *)

\* Mutant: <= in place of < in the test of the counting loops.
ForLoopRunsInclusive(k, n) == k <= n

\* for (int k = 0; k < n; ++k): the test of the loops over i and j of
\* check_func and of the thread launcher.
ForLoopRuns(k, n) == k < n

\* Workers between the return of lock() and the call of unlock().
Holding(t) == pc[t] \in { "read", "write", "unlock" }

\* Worker t's lock() has just returned.
JustAcquired(t) == pc[t] = "read" /\ pos[t] = 0

\* What a worker may see of shared_data before its lock() has returned:
\* refreshed when lock() is entered and at every failed attempt.
Snapshot(t) == IF relaxed THEN [ cache EXCEPT ![t] = shared_data ] ELSE cache

\* The early value of shared_data[p] is of no use once p has been read.
Consumed(t, p) == IF relaxed THEN [ cache EXCEPT ![t][p] = 0 ] ELSE cache

\* The values the read of shared_data[p] by worker t may return.
ReadValues(t, p) ==
    IF relaxed THEN { shared_data[p], cache[t][p] } ELSE { shared_data[p] }

\* lock() has returned to worker t: the guard is constructed, the for loop
\* over pos starts.  fails and yields keep the counts of the call until the
\* worker's next step.
Acquired(t, nextCache) ==
    /\ pc' = [ pc EXCEPT ![t] = "read" ]
    /\ pos' = [ pos EXCEPT ![t] = 0 ]
    /\ sc' = [ sc EXCEPT ![t] = U32Zero ]
    /\ cache' = IF relaxed /\ Synchronises(Cur.mutex)
                THEN [ nextCache EXCEPT ![t] = shared_data ]
                ELSE nextCache
    /\ overlap' = (overlap \/ \E u \in Threads \ { t } : Holding(u))

\* check_func: for (int i = 0; i < perfCount; ++i)
LoopTest(t) ==
    /\ pc[t] = "loop"
    /\ IF ForLoopRuns(i[t], Test.perfCount)
       THEN /\ pc' = [ pc EXCEPT ![t] = "busy" ]
            /\ j' = [ j EXCEPT ![t] = 0 ]
       ELSE /\ pc' = [ pc EXCEPT ![t] = "done" ]
            /\ j' = j
    /\ UNCHANGED << relaxed, stringVars, mainVars, runVars, lockVars,
                    i, pos, val, counter, sc, fails, yields, cache, overlap >>

\* check_func: for (int j = 0; j < outOfBusyLoopCount; ++j) { ++dummy; }
\* and, when it ends, the entry of lock() (isOwned = false, sc = spinCount).
BusyLoop(t) ==
    /\ pc[t] = "busy"
    /\ IF ForLoopRuns(j[t], Test.outOfBusyLoopCount)
       THEN /\ j' = [ j EXCEPT ![t] = j[t] + 1 ]
            /\ UNCHANGED << pc, sc, fails, yields, cache >>
       ELSE /\ pc' = [ pc EXCEPT ![t] = "lock" ]
            /\ sc' = [ sc EXCEPT ![t] =
                        IF Cur.mutex \in Futexes THEN spinCount(Cur.mutex)
                        ELSE U32Zero ]
            /\ fails' = [ fails EXCEPT ![t] = 0 ]
            /\ yields' = [ yields EXCEPT ![t] = 0 ]
            /\ cache' = Snapshot(t)
            /\ j' = [ j EXCEPT ![t] = 0 ]
    /\ UNCHANGED << relaxed, stringVars, mainVars, runVars, lockVars,
                    i, pos, val, counter, overlap >>

\* Futex<DRY_RUN>::lock(): returns at once.
LockDry(t) ==
    /\ pc[t] = "lock"
    /\ Cur.mutex \in Futexes
    /\ spinCount(Cur.mutex) = DRY_RUN
    /\ Acquired(t, cache)
    /\ UNCHANGED << relaxed, stringVars,
                    mainVars, runVars, lockVars, i, j, val, counter,
                    fails, yields >>

\* Futex<n>::lock(): one turn of the while loop, i.e. one
\* compare_exchange_weak and, when it fails, the loop body.
LockAttempt(t) ==
    /\ pc[t] = "lock"
    /\ Cur.mutex \in Futexes
    /\ spinCount(Cur.mutex) # DRY_RUN
    /\ \E spurious \in BOOLEAN :
         LET r == compare_exchange_weak(m_owned[Cur.mutex], FALSE, TRUE, spurious)
             b == SpinBody(spinCount(Cur.mutex), sc[t])
         IN  /\ m_owned' = [ m_owned EXCEPT ![Cur.mutex] = r.mem ]
             /\ IF LoopAgain(r)
                THEN /\ fails[t] < MaxFails
                     /\ fails' = [ fails EXCEPT ![t] = fails[t] + 1 ]
                     /\ sc' = [ sc EXCEPT ![t] = b.sc ]
                     /\ yields' = [ yields EXCEPT ![t] =
                                      IF b.yield THEN yields[t] + 1 ELSE yields[t] ]
                     /\ cache' = Snapshot(t)
                     /\ UNCHANGED << pc, pos, overlap >>
                ELSE /\ Acquired(t, cache)
                     /\ UNCHANGED << fails, yields >>
    /\ UNCHANGED << relaxed, stringVars, mainVars, runVars, mutex_locked,
                    i, j, val, counter >>

\* std::mutex::lock(): blocks while the mutex is locked.
LockMutex(t) ==
    /\ pc[t] = "lock"
    /\ Cur.mutex = "mutex"
    /\ ~mutex_locked
    /\ mutex_locked' = TRUE
    /\ Acquired(t, cache)
    /\ UNCHANGED << relaxed, stringVars,
                    mainVars, runVars, m_owned, i, j, val, counter,
                    fails, yields >>

\* check_func: the test pos < shared_data.size() and the read of
\* shared_data[pos]++.
\* The counts of the lock() call that has returned end here.
ReadData(t) ==
    /\ pc[t] = "read"
    /\ IF pos[t] < DataSize
       THEN \E v \in ReadValues(t, pos[t]) :
              /\ val' = [ val EXCEPT ![t] = v ]
              /\ cache' = Consumed(t, pos[t])
              /\ pc' = [ pc EXCEPT ![t] = "write" ]
       ELSE /\ pc' = [ pc EXCEPT ![t] = "unlock" ]
            /\ UNCHANGED << val, cache >>
    /\ fails' = [ fails EXCEPT ![t] = 0 ]
    /\ yields' = [ yields EXCEPT ![t] = 0 ]
    /\ UNCHANGED << relaxed, stringVars, mainVars, runVars, lockVars,
                    i, j, pos, counter, sc, overlap >>

\* Mutant: shared_data[pos] += 2.
IncrementedTwice(v) == v + 2

\* Mutant: the value is stored back as read.
NotIncremented(v) == v

\* shared_data[pos]++: the value stored.
Incremented(v) == v + 1

\* check_func: the write of shared_data[pos]++ and
\* pos += shared_data.size() / CHANGE_COUNT.
WriteData(t) ==
    /\ pc[t] = "write"
    /\ shared_data' = [ shared_data EXCEPT ![pos[t]] = Incremented(val[t]) ]
    /\ pos' = [ pos EXCEPT ![t] = pos[t] + (DataSize \div ChangeCount) ]
    /\ val' = [ val EXCEPT ![t] = 0 ]
    /\ pc' = [ pc EXCEPT ![t] = "read" ]
    /\ UNCHANGED << relaxed, stringVars, mainVars, spawned, joined, lockVars,
                    i, j, counter, sc, fails, yields, cache, overlap >>

\* Mutant: unlock() stores true.
unlock_store_true(l, owned) ==
    IF spinCount(l) = DRY_RUN THEN owned
    ELSE [ owned EXCEPT ![l] = TRUE ]

\* Mutant: unlock() flips m_owned instead of storing false.
unlock_toggle(l, owned) ==
    IF spinCount(l) = DRY_RUN THEN owned
    ELSE [ owned EXCEPT ![l] = ~owned[l] ]

\* Mutant: unlock() without its store.
unlock_no_store(l, owned) == owned

\* Futex<n>::unlock() on lock object l: the new m_owned of the objects.
unlock(l, owned) ==
    IF spinCount(l) = DRY_RUN THEN owned
    ELSE [ owned EXCEPT ![l] = FALSE ]

\* The end of the body of the for loop over i: the guard's destructor calls
\* unlock(), then ++i.
Unlock(t) ==
    /\ pc[t] = "unlock"
    /\ IF Cur.mutex = "mutex"
       THEN mutex_locked' = FALSE /\ m_owned' = m_owned
       ELSE m_owned' = unlock(Cur.mutex, m_owned) /\ mutex_locked' = mutex_locked
    /\ i' = [ i EXCEPT ![t] = i[t] + 1 ]
    /\ pos' = [ pos EXCEPT ![t] = 0 ]
    /\ pc' = [ pc EXCEPT ![t] = "loop" ]
    /\ UNCHANGED << relaxed, stringVars, mainVars, runVars,
                    j, val, counter, sc, fails, yields, cache, overlap >>

Worker(t) ==
    \/ LoopTest(t)
    \/ BusyLoop(t)
    \/ LockDry(t)
    \/ LockAttempt(t)
    \/ LockMutex(t)
    \/ ReadData(t)
    \/ WriteData(t)
    \/ Unlock(t)

(* ----------------------------- the harness ----------------------------- *)

\* checkSharedData: the sum over pos = 0, size/CHANGE_COUNT, ... < size.
RECURSIVE SumFrom(_, _)
SumFrom(data, p) ==
    IF p < DataSize
    THEN data[p] + SumFrom(data, p + (DataSize \div ChangeCount))
    ELSE 0

checkSharedData(data) == SumFrom(data, 0)

\* performance_test: paragon.
Paragon(test) == test.perfCount * test.threadCount * ChangeCount

\* Mutant: the mismatch is never reported.
LockFailedSwallowed(dry, fullCount, paragon) == FALSE

\* performance_test: the test that throws.
LockFailed(dry, fullCount, paragon) == ~dry /\ fullCount # paragon

\* performance_test: the text of the runtime_error.
FailureMessage(fullCount, paragon) ==
    [ text |-> "Lock failed: ", fullCount |-> fullCount,
      sep |-> "/", paragon |-> paragon ]

NoMessage == [ text |-> "", fullCount |-> 0, sep |-> "", paragon |-> 0 ]

\* A double no smaller than 0, as the pair of its digits in base 65536.
InitialMinTime == << 152587, 57599 >>

\* Mutant: > in place of <.
Greater(a, b) == b[1] < a[1] \/ (a[1] = b[1] /\ b[2] < a[2])

\* a < b on two such doubles.
Less(a, b) == a[1] < b[1] \/ (a[1] = b[1] /\ a[2] < b[2])

\* Mutant: min_time without the test timing > 0.0.
RECURSIVE MinTimeOfAll(_, _)
MinTimeOfAll(ts, m) ==
    IF ts = << >> THEN m
    ELSE MinTimeOfAll(Tail(ts), IF Less(U32(Head(ts)), m) THEN U32(Head(ts)) ELSE m)

\* line_test: min_time after the first loop over timings.
RECURSIVE MinTime(_, _)
MinTime(ts, m) ==
    IF ts = << >> THEN m
    ELSE MinTime(Tail(ts),
                 IF Less(U32(Head(ts)), m) /\ Head(ts) > 0
                 THEN U32(Head(ts)) ELSE m)

\* line_test: the fields printed after all_timings has returned; a ratio
\* timing / min_time is the pair of its numerator and denominator.
ReportFields(ts) ==
    ts \o [ k \in 1 .. Len(ts) |-> << ts[k], MinTime(ts, InitialMinTime) >> ]

\* main: the fields of the header line, by mode (dry is argc > 1).
Header(dry) ==
    IF dry
    THEN << "Threads", "Iterations", "Non-contended Loops", "Baseline" >>
    ELSE << "Threads", "Iterations", "Non-contended Loops",
            "Time Futex<0>", "Time Futex<1>", "Time Futex<40>", "Time std::mutex",
            "Rel Futex<0>", "Rel Futex<1>", "Rel Futex<40>", "Rel std::mutex" >>

\* The value performance_test returns: after - now, a reading of the clock
\* that nothing reads before line_test prints it.  Its number of
\* milliseconds is drawn when line_test reads it.
Elapsed == "after - now"

\* The rows of milliseconds a vector of n timings may hold.
TimingRows(n) == [ 1 .. n -> 0 .. MaxElapsed ]

\* main: the loop over tests; line_test prints the parameters and flushes,
\* all_timings constructs its lock objects.
LineStart ==
    /\ mpc = "line"
    /\ IF tp <= Len(generate_tests)
       THEN /\ out' = << Test.threadCount, Test.perfCount, Test.outOfBusyLoopCount >>
            /\ m_owned' = [ l \in Futexes |-> FALSE ]
            /\ mutex_locked' = FALSE
            /\ timings' = << >>
            /\ run' = 1
            /\ mpc' = "perf"
            /\ UNCHANGED exit_code
       ELSE /\ exit_code' = "0"
            /\ mpc' = "exited"
            /\ UNCHANGED << out, m_owned, mutex_locked, timings, run >>
    /\ UNCHANGED << relaxed, stringVars,
                    dry_run, tp, what, runVars, workerVars >>

\* Mutant: the vector outlives the call (a static local).
KeptData(old) == old

\* std::vector<int> shared_data(0x100000): a new vector of zeroes, whatever
\* the vector of the previous call held.
FreshData(old) == ZeroData

\* performance_test: now is taken, shared_data and threads are constructed.
PerfStart ==
    /\ mpc = "perf"
    /\ shared_data' = FreshData(shared_data)
    /\ spawned' = 0
    /\ joined' = 0
    /\ pc' = [ t \in Threads |-> "idle" ]
    /\ i' = [ t \in Threads |-> 0 ]
    /\ j' = [ t \in Threads |-> 0 ]
    /\ pos' = [ t \in Threads |-> 0 ]
    /\ val' = [ t \in Threads |-> 0 ]
    /\ counter' = [ t \in Threads |-> 0 ]
    /\ sc' = [ t \in Threads |-> U32Zero ]
    /\ fails' = [ t \in Threads |-> 0 ]
    /\ yields' = [ t \in Threads |-> 0 ]
    /\ cache' = [ t \in Threads |-> ZeroData ]
    /\ overlap' = FALSE
    /\ mpc' = "spawn"
    /\ UNCHANGED << relaxed, stringVars,
                    dry_run, tp, run, timings, out, what, exit_code,
                    lockVars >>

\* performance_test: the thread launcher.
Spawn ==
    /\ mpc = "spawn"
    /\ IF ForLoopRuns(spawned, Test.threadCount)
       THEN /\ spawned' = spawned + 1
            /\ pc' = [ pc EXCEPT ![spawned + 1] = "loop" ]
            /\ mpc' = mpc
       ELSE /\ mpc' = "join"
            /\ UNCHANGED << spawned, pc >>
    /\ UNCHANGED << relaxed, stringVars,
                    dry_run, tp, run, timings, out, what, exit_code,
                    shared_data, joined, lockVars,
                    i, j, pos, val, counter, sc, fails, yields, cache, overlap >>

\* Mutant: join() does not wait.
FinishedOrNot(t) == TRUE

\* thread.join() returns once the thread's function has returned.
Finished(t) == pc[t] = "done"

\* performance_test: thread.join() for every thread, in order; after the
\* last one, after is taken.
Join ==
    /\ mpc = "join"
    /\ IF joined < spawned
       THEN /\ Finished(joined + 1)
            /\ joined' = joined + 1
            /\ mpc' = mpc
       ELSE /\ mpc' = "verify"
            /\ joined' = joined
    /\ UNCHANGED << relaxed, stringVars,
                    dry_run, tp, run, timings, out, what, exit_code,
                    shared_data, spawned, lockVars, workerVars >>

\* performance_test: checkSharedData, the comparison with paragon, the
\* throw or the return of the elapsed time; all_timings stores the time.
Verify ==
    /\ mpc = "verify"
    /\ LET fullCount == checkSharedData(shared_data)
           paragon == Paragon(Test)
       IN  IF LockFailed(Cur.dry, fullCount, paragon)
           THEN /\ what' = FailureMessage(fullCount, paragon)
                /\ exit_code' = "abort"
                /\ mpc' = "terminated"
                /\ UNCHANGED << timings, run >>
           ELSE /\ timings' = Append(timings, Elapsed)
                /\ IF run < Len(Runs(dry_run))
                   THEN run' = run + 1 /\ mpc' = "perf"
                   ELSE run' = run /\ mpc' = "print"
                /\ UNCHANGED << what, exit_code >>
    /\ UNCHANGED << relaxed, stringVars,
                    dry_run, tp, out, runVars, lockVars, workerVars >>

\* line_test: the timings and the ratios are printed, then the newline;
\* main: the next element of tests.
PrintLine ==
    /\ mpc = "print"
    /\ \E ts \in TimingRows(Len(timings)) : out' = out \o ReportFields(ts)
    /\ tp' = tp + 1
    /\ mpc' = "line"
    /\ UNCHANGED << relaxed, stringVars, dry_run, run, timings, what, exit_code,
                    runVars, lockVars, workerVars >>

Main == LineStart \/ PerfStart \/ Spawn \/ Join \/ Verify \/ PrintLine

(* --------------------------- specifications ---------------------------- *)

\* The benchmark programs construct no VariantString.
NoStrings ==
    /\ build = [ std |-> "c++17", char_signed |-> TRUE, elide |-> TRUE ]
    /\ m_string = DefaultString
    /\ call = NoCall
    /\ ret = Returned(DefaultString)

InitBenchmark ==
    /\ dry_run \in BOOLEAN
    /\ tp = 1
    /\ mpc = "line"
    /\ run = 1
    /\ timings = << >>
    /\ out = << >>
    /\ what = NoMessage
    /\ exit_code = "running"
    /\ m_owned = [ l \in Futexes |-> FALSE ]
    /\ mutex_locked = FALSE
    /\ shared_data = ZeroData
    /\ spawned = 0
    /\ joined = 0
    /\ pc = [ t \in Threads |-> "idle" ]
    /\ i = [ t \in Threads |-> 0 ]
    /\ j = [ t \in Threads |-> 0 ]
    /\ pos = [ t \in Threads |-> 0 ]
    /\ val = [ t \in Threads |-> 0 ]
    /\ counter = [ t \in Threads |-> 0 ]
    /\ sc = [ t \in Threads |-> U32Zero ]
    /\ fails = [ t \in Threads |-> 0 ]
    /\ yields = [ t \in Threads |-> 0 ]
    /\ cache = [ t \in Threads |-> ZeroData ]
    /\ overlap = FALSE

InitCommon == InitBenchmark /\ NoStrings

Init == relaxed = FALSE /\ InitCommon

InitRelaxed == relaxed = TRUE /\ InitCommon

Next == Main \/ \E t \in Threads : Worker(t)

Spec == Init /\ [][Next]_vars

SpecRelaxed == InitRelaxed /\ [][Next]_vars

\* The sweep under a scheduler that does not stop while some thread can
\* take a step, which every fair scheduler ensures.  A lock() call fails at
\* most MaxFails times, so no run has an infinite sequence of spurious
\* failures.
SpecFair == Init /\ [][Next]_vars /\ WF_vars(Next)

(* ------------------- a client that misuses a Futex --------------------- *)

\* The Futex class checks nothing about its caller.  Here every thread calls
\* lock() and unlock() of one Futex object in any order: pc is "idle"
\* (outside, no lock() of its own outstanding), "lock" (inside lock()),
\* "held" (outside, a lock() of its own has returned and it has not called
\* unlock() since) or "relock" (inside lock(), called from "held").

\* Thread t calls lock(): isOwned = false, sc = spinCount.
ClientCallsLock(t) ==
    /\ pc[t] \in { "idle", "held" }
    /\ pc' = [ pc EXCEPT ![t] = IF pc[t] = "held" THEN "relock" ELSE "lock" ]
    /\ sc' = [ sc EXCEPT ![t] = spinCount(Cur.mutex) ]
    /\ fails' = [ fails EXCEPT ![t] = 0 ]
    /\ yields' = [ yields EXCEPT ![t] = 0 ]
    /\ UNCHANGED << relaxed, stringVars, mainVars, runVars, lockVars,
                    i, j, pos, val, counter, cache, overlap >>

\* Futex<n>::lock() of thread t: the return of the no-op lock, or one turn of
\* the while loop.
ClientLockTurn(t) ==
    /\ pc[t] \in { "lock", "relock" }
    /\ IF spinCount(Cur.mutex) = DRY_RUN
       THEN /\ pc' = [ pc EXCEPT ![t] = "held" ]
            /\ UNCHANGED << m_owned, sc, fails, yields >>
       ELSE \E spurious \in BOOLEAN :
              LET r == compare_exchange_weak(m_owned[Cur.mutex], FALSE, TRUE, spurious)
                  b == SpinBody(spinCount(Cur.mutex), sc[t])
              IN  /\ m_owned' = [ m_owned EXCEPT ![Cur.mutex] = r.mem ]
                  /\ IF LoopAgain(r)
                     THEN /\ fails[t] < MaxFails
                          /\ fails' = [ fails EXCEPT ![t] = fails[t] + 1 ]
                          /\ sc' = [ sc EXCEPT ![t] = b.sc ]
                          /\ yields' = [ yields EXCEPT ![t] =
                                           IF b.yield THEN yields[t] + 1 ELSE yields[t] ]
                          /\ pc' = pc
                     ELSE /\ pc' = [ pc EXCEPT ![t] = "held" ]
                          /\ UNCHANGED << sc, fails, yields >>
    /\ UNCHANGED << relaxed, stringVars, mainVars, runVars, mutex_locked,
                    i, j, pos, val, counter, cache, overlap >>

\* Thread t calls unlock(), whether a lock() of its own is outstanding or not.
ClientUnlock(t) ==
    /\ pc[t] \in { "idle", "held" }
    /\ m_owned' = unlock(Cur.mutex, m_owned)
    /\ pc' = [ pc EXCEPT ![t] = "idle" ]
    /\ UNCHANGED << relaxed, stringVars, mainVars, runVars, mutex_locked,
                    i, j, pos, val, counter, sc, fails, yields, cache, overlap >>

\* One of the Futex objects of all_timings, just constructed, and threads
\* that have called nothing yet.
InitMisuse ==
    /\ relaxed = FALSE
    /\ dry_run \in BOOLEAN
    /\ run \in { k \in 1 .. Len(Runs(dry_run)) :
                    Runs(dry_run)[k].mutex \in Futexes }
    /\ tp = 1
    /\ mpc = "client"
    /\ timings = << >>
    /\ out = << >>
    /\ what = NoMessage
    /\ exit_code = "running"
    /\ m_owned = [ l \in Futexes |-> FALSE ]
    /\ mutex_locked = FALSE
    /\ shared_data = ZeroData
    /\ spawned = 0
    /\ joined = 0
    /\ pc = [ t \in Threads |-> "idle" ]
    /\ i = [ t \in Threads |-> 0 ]
    /\ j = [ t \in Threads |-> 0 ]
    /\ pos = [ t \in Threads |-> 0 ]
    /\ val = [ t \in Threads |-> 0 ]
    /\ counter = [ t \in Threads |-> 0 ]
    /\ sc = [ t \in Threads |-> U32Zero ]
    /\ fails = [ t \in Threads |-> 0 ]
    /\ yields = [ t \in Threads |-> 0 ]
    /\ cache = [ t \in Threads |-> ZeroData ]
    /\ overlap = FALSE
    /\ NoStrings

NextMisuse ==
    \E t \in Threads :
        \/ ClientCallsLock(t)
        \/ ClientLockTurn(t)
        \/ ClientUnlock(t)

SpecMisuse == InitMisuse /\ [][NextMisuse]_vars

(* ------------- the harness of src/futex-test/futex-test.cpp ------------ *)

\* The earlier harness has the same Futex class (without the no-op case),
\* the same sweep and the same four runs per line, and main takes no
\* argument.  Its check_func counts in a local variable and its
\* performance_test verifies nothing after the join: the only comparison is
\* made by every worker on the value its own check_func returned.

\* check_func: for (int i = 0; i < perfCount; ++i), and return counter.
CounterLoopTest(t) ==
    /\ pc[t] = "loop"
    /\ IF ForLoopRuns(i[t], Test.perfCount)
       THEN /\ pc' = [ pc EXCEPT ![t] = "busy" ]
            /\ j' = [ j EXCEPT ![t] = 0 ]
       ELSE /\ pc' = [ pc EXCEPT ![t] = "check" ]
            /\ j' = j
    /\ UNCHANGED << relaxed, stringVars, mainVars, runVars, lockVars,
                    i, pos, val, counter, sc, fails, yields, cache, overlap >>

\* check_func: ++counter, on the worker's own counter.
CounterIncrement(t) ==
    /\ pc[t] = "read"
    /\ counter' = [ counter EXCEPT ![t] = Incremented(counter[t]) ]
    /\ fails' = [ fails EXCEPT ![t] = 0 ]
    /\ yields' = [ yields EXCEPT ![t] = 0 ]
    /\ pc' = [ pc EXCEPT ![t] = "unlock" ]
    /\ UNCHANGED << relaxed, stringVars, mainVars, runVars, lockVars,
                    i, j, pos, val, sc, cache, overlap >>

\* The text of the runtime_error of the worker lambda.
WorkerFailureMessage ==
    [ text |-> "Lock failed", fullCount |-> 0, sep |-> "", paragon |-> 0 ]

\* The worker lambda: if (counter != perfCount) throw; an exception that
\* leaves a thread function ends the process.
CounterCheck(t) ==
    /\ pc[t] = "check"
    /\ IF counter[t] # Test.perfCount
       THEN /\ what' = WorkerFailureMessage
            /\ exit_code' = "abort"
            /\ mpc' = "terminated"
            /\ pc' = pc
       ELSE /\ pc' = [ pc EXCEPT ![t] = "done" ]
            /\ UNCHANGED << what, exit_code, mpc >>
    /\ UNCHANGED << relaxed, stringVars,
                    dry_run, tp, run, timings, out, runVars, lockVars,
                    i, j, pos, val, counter, sc, fails, yields, cache, overlap >>

\* performance_test: after the joins the elapsed time is returned;
\* all_timings stores it.
ReturnElapsed ==
    /\ mpc = "verify"
    /\ timings' = Append(timings, Elapsed)
    /\ IF run < Len(Runs(dry_run))
       THEN run' = run + 1 /\ mpc' = "perf"
       ELSE run' = run /\ mpc' = "print"
    /\ UNCHANGED << relaxed, stringVars, dry_run, tp, out, what, exit_code,
                    runVars, lockVars, workerVars >>

CounterWorker(t) ==
    \/ CounterLoopTest(t)
    \/ BusyLoop(t)
    \/ LockAttempt(t)
    \/ LockMutex(t)
    \/ CounterIncrement(t)
    \/ Unlock(t)
    \/ CounterCheck(t)

InitCounter == relaxed = FALSE /\ InitCommon /\ dry_run = FALSE

NextCounter ==
    \/ LineStart \/ PerfStart \/ Spawn \/ Join \/ ReturnElapsed \/ PrintLine
    \/ \E t \in Threads : CounterWorker(t)

SpecCounter == InitCounter /\ [][NextCounter]_vars

(* ---------------------- the sweep of the source ----------------------- *)

\* The largest threadCount of generate_tests.
FullThreads == 16

\* CHANGE_COUNT as the source has it (0x10).
CHANGE_COUNT == 16

\* The largest value of an int.
IntMax == 2147483647

\* lparms as the source has it.
FullLparms ==
    << << 10000000, 0 >>, << 1000000, 50 >>, << 980000, 200 >>,
       << 950000, 400 >>, << 900000, 800 >>, << 850000, 1200 >>,
       << 700000, 2000 >>, << 400000, 10000 >> >>

\* What generate_tests() returns.
FullTests == PushAll(<< >>, FullLparms, FullThreads)

\* main and line_test over the tests of the source: the parameters of the
\* element are printed.  The runs of a line are followed at the bounds of
\* the model, under Spec; here out keeps the parameters of the last line.
SourceLine ==
    /\ mpc = "line"
    /\ tp <= Len(FullTests)
    /\ out' = << FullTests[tp].threadCount, FullTests[tp].perfCount,
                 FullTests[tp].outOfBusyLoopCount >>
    /\ tp' = tp + 1
    /\ UNCHANGED << relaxed, stringVars,
                    dry_run, mpc, run, timings, what, exit_code,
                    runVars, lockVars, workerVars >>

\* main: return 0.
SourceExit ==
    /\ mpc = "line"
    /\ tp > Len(FullTests)
    /\ exit_code' = "0"
    /\ mpc' = "exited"
    /\ UNCHANGED << relaxed, stringVars, dry_run, tp, run, timings, out, what,
                    runVars, lockVars, workerVars >>

InitSweep == relaxed = FALSE /\ InitCommon

NextSweep == SourceLine \/ SourceExit

SpecSweep == InitSweep /\ [][NextSweep]_vars

(* ----------------------- a client of VariantString ---------------------- *)
(* A program that constructs one VariantString and calls its public member *)
(* functions in any order, compiled in any of the Builds.                  *)

\* The uint32_t arguments of the client: 'A', 0xFF, 0x100, 0x10000.
Chars == { U32(65), U32(Byte - 1), U32(Byte), U32(Half) }

\* The size_t arguments of the client.
Positions == 0 .. (MaxLen + 1)

Lengths == (0 .. (MaxLen + 1)) \cup { npos }

stringIdle ==
    UNCHANGED << relaxed, mainVars, runVars, lockVars, workerVars, build >>

\* str.push_back(chr) with a uint32_t chr.
ClientPushBack ==
    \E chr \in Chars :
        /\ size(m_string) < MaxLen
        /\ m_string' = push_back(m_string, chr, build)
        /\ call' = Call("push_back", size(m_string), 0, chr)
        /\ ret' = Returned(DefaultString)
        /\ stringIdle

\* str.set_at(pos, chr) with a uint32_t chr.
ClientSetAt ==
    \E p \in Positions, chr \in Chars :
        /\ m_string' = set_at(m_string, p, chr, build)
        /\ call' = Call("set_at", p, 0, chr)
        /\ ret' = IF InRange(m_string, p) THEN Returned(DefaultString)
                  ELSE Thrown("out_of_range")
        /\ stringIdle

\* str.substr(pos, len); substr is a const member function.
ClientSubstr ==
    \E p \in Positions, len \in Lengths :
        /\ call' = Call("substr", p, len, U32Zero)
        /\ ret' = substr(m_string, p, len, build)
        /\ UNCHANGED m_string
        /\ stringIdle

\* str.clear().
ClientClear ==
    /\ m_string' = [ m_string EXCEPT !.m_base = << >> ]
    /\ call' = Call("clear", 0, 0, U32Zero)
    /\ ret' = Returned(DefaultString)
    /\ stringIdle

\* VariantString str; in main.
InitString ==
    /\ relaxed = FALSE
    /\ InitBenchmark
    /\ dry_run = FALSE
    /\ build \in Builds
    /\ m_string = DefaultString
    /\ call = NoCall
    /\ ret = Returned(DefaultString)

NextString == ClientPushBack \/ ClientSetAt \/ ClientSubstr \/ ClientClear

SpecString == InitString /\ [][NextString]_vars

(* ------------------------------- claims -------------------------------- *)

\* The lock object of the current run is a Futex that is not the no-op one.
SpinLockRun == Cur.mutex \in Futexes /\ spinCount(Cur.mutex) # DRY_RUN

NoOpRun == Cur.mutex \in Futexes /\ spinCount(Cur.mutex) = DRY_RUN

Holders == { t \in Threads : Holding(t) }

LockFree(l) == IF l = "mutex" THEN ~mutex_locked ELSE ~m_owned[l]

\* C1: with a Futex<n>, n # DRY_RUN, at most one worker is between the
\* return of lock() and the call of unlock() in every reachable state, no two
\* critical sections ever overlap, and a worker is there only while m_owned
\* is true.
C1_MutualExclusion ==
    SpinLockRun =>
        /\ Cardinality(Holders) <= 1
        /\ ~overlap
        /\ (Holders # { } => m_owned[Cur.mutex])

\* C1 witness: one worker holds sl_futex while another has failed in lock().
C1_Witness ==
    /\ Cur.mutex = "sl_futex"
    /\ \E t, u \in Threads :
         t # u /\ Holding(t) /\ pc[u] = "lock" /\ fails[u] >= 1

C3_AcquireSeesWrites ==
    \A t \in Threads :
        (SpinLockRun /\ pc[t] = "write") => val[t] = shared_data[pos[t]]

\* C4: with the no-op lock a total below the expected one is the effect of
\* two workers being inside the critical section at once (and needs two
\* workers); the witness shows that this happens.
C4_LostUpdateByOverlap ==
    (mpc = "verify" /\ NoOpRun
        /\ checkSharedData(shared_data) # Paragon(Test)) =>
        /\ overlap
        /\ Test.threadCount >= 2
        /\ checkSharedData(shared_data) < Paragon(Test)

\* C4 witness: a dry run of two workers has ended, two workers were inside
\* the critical section at once and the total is below the expected one.
C4_Witness ==
    /\ mpc = "verify"
    /\ NoOpRun
    /\ Test.threadCount >= 2
    /\ overlap
    /\ checkSharedData(shared_data) < Paragon(Test)

\* C5: with threadCount = 1 the total after the join is
\* perfCount * CHANGE_COUNT for every lock, the no-op one included, and
\* whenever the worker is inside lock() the lock is free.
C5_SingleThread ==
    (mpc \in { "spawn", "join", "verify" } /\ Test.threadCount = 1) =>
        /\ (mpc = "verify" =>
              checkSharedData(shared_data) = Test.perfCount * ChangeCount)
        /\ (pc[1] = "lock" => LockFree(Cur.mutex))
        /\ ~overlap

\* C5 witness: the single worker of a dry run has done four iterations.
C5_Witness ==
    /\ mpc = "verify"
    /\ NoOpRun
    /\ Test.threadCount = 1
    /\ Test.perfCount = 4
    /\ checkSharedData(shared_data) = 4 * ChangeCount

\* C6: a run is passed dry = true exactly when its lock is the no-op one,
\* and the step after the join ends the process exactly when the lock is not
\* the no-op one and the total differs from the expected one (the total of
\* every such run is compared, that of a no-op run never).
C6_VerifiedUnlessNoOp ==
    [][ mpc = "verify" =>
          /\ Cur.dry <=> NoOpRun
          /\ (mpc' = "terminated") <=>
                (~NoOpRun /\ checkSharedData(shared_data) # Paragon(Test)) ]_vars

\* C6 witness: a no-op run ended with a total below the expected one and
\* its timing was recorded.
C6_Witness ==
    /\ mpc = "print"
    /\ NoOpRun
    /\ Len(timings) = 1
    /\ checkSharedData(shared_data) < Paragon(Test)

\* C7: in full mode a total that differs from the expected one ends the
\* process in the step that finds it: no timing is recorded for the run, the
\* run and the tuple stay the current ones, the exit is not 0, and no step
\* follows.
C7_FailureFatal ==
    [][ /\ mpc # "terminated"
        /\ (mpc = "verify" /\ ~dry_run
              /\ checkSharedData(shared_data) # Paragon(Test)) =>
              /\ mpc' = "terminated"
              /\ exit_code' = "abort"
              /\ what' # NoMessage
              /\ timings' = timings
              /\ run' = run
              /\ tp' = tp
        /\ (exit_code' = "0" => what' = NoMessage) ]_vars

\* C7 witness: the second run of a row failed its verification; one timing
\* is recorded and the process has aborted.
C7_Witness ==
    /\ mpc = "terminated"
    /\ exit_code = "abort"
    /\ run = 2
    /\ Len(timings) = 1

\* C8 (stated as claimed): after a failed verification the report (the line
\* printed so far and the what() of the exception) names the lock under
\* test, the tuple and both totals.
C8_FailureReport ==
    mpc = "terminated" =>
        /\ Cur.mutex \in { what.text, what.sep }
        /\ out = << Test.threadCount, Test.perfCount, Test.outOfBusyLoopCount >>
        /\ what.fullCount = checkSharedData(shared_data)
        /\ what.paragon = Paragon(Test)

\* C9 (stated as claimed): inside one lock() call of sl_futex the worker has
\* yielded once for every SlSpin failed attempts.
C9_YieldEverySpinCount ==
    \A t \in Threads :
        (Cur.mutex = "sl_futex" /\ (pc[t] = "lock" \/ JustAcquired(t))) =>
            yields[t] = fails[t] \div SlSpin

\* C10: inside one lock() call of yield_futex the worker has yielded once
\* for every failed attempt, and the successful attempt adds no yield.
C10_AlwaysYield ==
    \A t \in Threads :
        (Cur.mutex = "yield_futex" /\ (pc[t] = "lock" \/ JustAcquired(t))) =>
            yields[t] = fails[t]

\* C10 witness: a lock() call of yield_futex has returned after two failed
\* attempts and two yields.
C10_Witness ==
    /\ Cur.mutex = "yield_futex"
    /\ \E t \in Threads : JustAcquired(t) /\ fails[t] = 2 /\ yields[t] = 2

\* C11: while the lock under test is Futex<0>, no lock() call has yielded,
\* however many of its attempts have failed, and its sc is still 0.
C11_PureSpinNeverYields ==
    Cur.mutex = "futex" =>
        \A t \in Threads :
            (pc[t] = "lock" \/ JustAcquired(t)) =>
                yields[t] = 0 /\ sc[t] = U32Zero

\* A lock() call on Futex<0> has failed as often as the model follows it.
C11_Witness ==
    /\ Cur.mutex = "futex"
    /\ \E t \in Threads :
         pc[t] = "lock" /\ fails[t] = MaxFails /\ yields[t] = 0

\* A step in which worker t's lock() returns from its compare-exchange loop.
LockReturns(t) == pc[t] = "lock" /\ pc'[t] = "read"

\* A step in which worker t's guard calls unlock().
UnlockCalled(t) == pc[t] = "unlock" /\ pc'[t] = "loop"

\* C12: m_owned of every Futex starts false; it turns true only in the step
\* in which a lock() on that object returns from a successful
\* compare-exchange, and false only in an unlock() step on that object; no
\* other step (a failed or spurious attempt, a yield, busy work, a write of
\* shared_data, the verification) changes it.
C12_LockStateMachine ==
    /\ \A l \in Futexes : ~m_owned[l]
    /\ [][ \A l \in Futexes :
             /\ (~m_owned[l] /\ m_owned'[l]) =>
                    /\ l = Cur.mutex
                    /\ spinCount(l) # DRY_RUN
                    /\ \E t \in Threads : LockReturns(t)
             /\ (m_owned[l] /\ ~m_owned'[l]) =>
                    /\ l = Cur.mutex
                    /\ \E t \in Threads : UnlockCalled(t) ]_vars

\* An attempt of the only worker of a run has failed and the lock is free: a
\* spurious failure has left m_owned false.
C12_Witness ==
    /\ SpinLockRun
    /\ Test.threadCount = 1
    /\ pc[1] = "lock" /\ fails[1] > 0
    /\ ~m_owned[Cur.mutex]

\* C13: unlock() can be called by any thread that is outside lock(), whoever
\* holds the Futex; on a Futex other than the no-op one it leaves m_owned
\* false whatever m_owned was, also when the caller has no lock() of its own
\* outstanding and another thread has; it raises no error.
C13_UnlockUnconditional ==
    /\ [](\A t \in Threads :
            pc[t] \in { "idle", "held" } => ENABLED ClientUnlock(t))
    /\ [][ \A t \in Threads :
             (ClientUnlock(t) /\ SpinLockRun) =>
                 /\ ~m_owned'[Cur.mutex]
                 /\ what' = NoMessage /\ exit_code' = "running" ]_vars

\* A thread whose lock() has returned has not called unlock(), and the Futex
\* is free: another thread's unlock() has released it.
C13_Witness ==
    /\ SpinLockRun
    /\ ~m_owned[Cur.mutex]
    /\ \E t \in Threads :
         pc[t] = "held" /\ \A u \in Threads \ { t } : pc[u] = "idle"

\* C14: while a thread is inside a lock() it called on a Futex it already
\* holds (not the no-op one) and m_owned is true, every step leaves it
\* inside that lock() with m_owned true and no error raised, unless the step
\* is an unlock() of another thread: every attempt fails.
C14_SelfDeadlock ==
    [][ \A t \in Threads :
          (SpinLockRun /\ pc[t] = "relock" /\ m_owned[Cur.mutex]) =>
              \/ /\ pc'[t] = "relock"
                 /\ m_owned'[Cur.mutex]
                 /\ what' = NoMessage /\ exit_code' = "running"
              \/ \E u \in Threads \ { t } : ClientUnlock(u) ]_vars

\* The only thread that has called anything is inside its second lock() and
\* has failed as often as the model follows it.
C14_Witness ==
    /\ SpinLockRun
    /\ m_owned[Cur.mutex]
    /\ \E t \in Threads :
         /\ pc[t] = "relock" /\ fails[t] = MaxFails
         /\ \A u \in Threads \ { t } : pc[u] = "idle"

\* C15: on the no-op lock (the object dry, Futex<DRY_RUN>) lock() and
\* unlock() can always proceed, whatever the other threads have called;
\* lock() returns in its first step without a failed attempt or a yield, and
\* m_owned of the object is false in every state.
C15_NoOpLock ==
    /\ [](Cur.mutex = "dry" =>
            /\ ~m_owned["dry"]
            /\ \A t \in Threads :
                 /\ fails[t] = 0 /\ yields[t] = 0
                 /\ pc[t] \in { "lock", "relock" } => ENABLED ClientLockTurn(t)
                 /\ pc[t] \in { "idle", "held" } => ENABLED ClientUnlock(t))
    /\ [][ \A t \in Threads :
             (Cur.mutex = "dry" /\ pc[t] \in { "lock", "relock" } /\ pc'[t] # pc[t])
                 => pc'[t] = "held" /\ m_owned' = m_owned ]_vars

\* Every thread has returned from a lock() on the no-op lock and none has
\* called unlock() since.
C15_Witness ==
    /\ Cur.mutex = "dry"
    /\ \A t \in Threads : pc[t] = "held"

\* The critical sections the workers of the current run have completed.
RECURSIVE CompletedUpTo(_)
CompletedUpTo(t) == IF t = 0 THEN 0 ELSE i[t] + CompletedUpTo(t - 1)

CriticalSections == CompletedUpTo(MaxThreads)

\* C16: in the single-counter harness the counter is shared by the workers
\* of a run: the value a worker compares is the number of critical sections
\* all workers have completed, so that a lost increment would show.
C16_CounterIsShared ==
    \A t \in Threads : pc[t] = "check" => counter[t] = CriticalSections

\* C17: performance_test spawns exactly threadCount workers; every worker
\* runs exactly perfCount iterations, each of exactly outOfBusyLoopCount
\* busy steps that change neither shared_data nor a lock, then lock(), one
\* pass over the sampled positions of shared_data and unlock(); when the
\* workers have joined, threadCount * perfCount critical sections have been
\* completed; every write of shared_data by a worker is made between that
\* worker's lock() and unlock().
C17_WorkloadShape ==
    /\ [](mpc \in { "spawn", "join", "verify" } =>
            /\ \A t \in Threads : t > spawned => pc[t] = "idle"
            /\ \A t \in Threads : i[t] <= Test.perfCount
            /\ mpc \in { "join", "verify" } => spawned = Test.threadCount
            /\ mpc = "verify" =>
                 /\ \A t \in 1 .. Test.threadCount : i[t] = Test.perfCount
                 /\ CriticalSections = Test.threadCount * Test.perfCount)
    /\ [][ mpc # "perf" =>
             /\ \A t \in Threads :
                  /\ (pc[t] = "busy" /\ pc'[t] = "lock") =>
                         j[t] = Test.outOfBusyLoopCount
                  /\ (pc[t] = "busy" /\ j'[t] # j[t] /\ pc'[t] = "busy") =>
                         /\ j'[t] = j[t] + 1
                         /\ UNCHANGED << shared_data, lockVars >>
                  /\ i'[t] # i[t] =>
                         /\ UnlockCalled(t)
                         /\ i'[t] = i[t] + 1
                         /\ pos[t] >= DataSize
             /\ shared_data' # shared_data =>
                  \E t \in Threads :
                      /\ Holding(t) /\ pc[t] = "write" /\ pc'[t] = "read"
                      /\ shared_data' =
                            [ shared_data EXCEPT ![pos[t]] = shared_data'[pos[t]] ] ]_vars

\* The workers of a run with several threads and non-contended work have
\* joined.
C17_Witness ==
    /\ mpc = "verify"
    /\ Test.threadCount = MaxThreads
    /\ Test.outOfBusyLoopCount > 0
    /\ CriticalSections = MaxThreads * Test.perfCount

\* performance_test, from the reading of now to the reading of after.
TimerRunning == mpc \in { "spawn", "join" }

\* performance_test, from the reading of after on: checkSharedData reads
\* shared_data here.
TimerStopped == mpc = "verify"

\* A worker has been started and its function has not returned.
Running(t) == pc[t] \notin { "idle", "done" }

\* C18: within a run, no worker exists when the timer is started; a worker
\* runs only while the timer runs; the timer is stopped, and shared_data is
\* read by the verification, only when all threadCount workers have been
\* joined; from then on no worker takes a step.
C18_RunOrdering ==
    /\ [](/\ \A t \in Threads : Running(t) => TimerRunning
          /\ mpc = "spawn" => joined = 0
          /\ TimerStopped =>
                /\ joined = Test.threadCount
                /\ \A t \in 1 .. Test.threadCount : pc[t] = "done")
    /\ [][ /\ (mpc = "perf" /\ mpc' = "spawn") =>
                 spawned' = 0 /\ \A t \in Threads : pc'[t] = "idle"
           /\ (mpc = "join" /\ mpc' = "verify") =>
                 joined = Test.threadCount /\ \A t \in Threads : ~Running(t)
           /\ (mpc # "perf" /\ workerVars' # workerVars) => TimerRunning
           /\ (mpc = "verify" /\ mpc' # mpc) =>
                 UNCHANGED << shared_data, workerVars >> ]_vars

\* The timer of a run with several workers has been stopped.
C18_Witness ==
    /\ TimerStopped
    /\ Test.threadCount = MaxThreads
    /\ joined = MaxThreads
    /\ \A t \in Threads : i[t] = Test.perfCount

\* The lock variants of a line as C19 states them: Futex<0>, Futex<1>,
\* Futex<0x40>, std::mutex without an argument, the no-op lock with one.
StatedOrder ==
    IF dry_run THEN << "dry" >>
    ELSE << "futex", "yield_futex", "sl_futex", "mutex" >>

\* C19: for every line the runs depend on the mode only: they use the locks
\* of StatedOrder, in that order, one run each; the k-th run starts when
\* k - 1 timings are stored and no worker of an earlier run is running, only
\* the lock of the current run ever changes state, and when the line is
\* printed there is one timing per stated lock.
C19_RunsByMode ==
    /\ [](/\ mpc \in { "perf", "spawn", "join", "verify" } =>
                /\ run \in 1 .. Len(StatedOrder)
                /\ Len(timings) = run - 1
                /\ Cur.mutex = StatedOrder[run]
                /\ Cur.dry = dry_run
          /\ mpc = "perf" => \A t \in Threads : ~Running(t)
          /\ mpc = "print" => Len(timings) = Len(StatedOrder))
    /\ [][ /\ \A l \in Futexes :
                m_owned'[l] # m_owned[l] => l = StatedOrder[Len(timings) + 1]
           /\ mutex_locked' # mutex_locked =>
                StatedOrder[Len(timings) + 1] = "mutex"
           /\ run' # run =>
                \/ mpc = "line" /\ run' = 1
                \/ /\ mpc = "verify" /\ run' = run + 1
                   /\ \A t \in Threads : ~Running(t) ]_vars

\* The line of a sweep without argument is about to be printed: four runs
\* have returned, the last one with several workers on the std::mutex.
C19_Witness ==
    /\ mpc = "print"
    /\ ~dry_run
    /\ Len(timings) = 4
    /\ Cur.mutex = "mutex"
    /\ Test.threadCount = MaxThreads

\* performance_test has constructed its locals and has started no worker.
RunStarts == mpc = "spawn" /\ spawned = 0

\* C20: when a run starts, every counter of shared_data is 0, the lock under
\* test and every other lock object is free, and no worker state of an
\* earlier run is left; no lock object is passed to two runs of a line (the
\* objects are constructed anew for every line).
C20_FreshStatePerRun ==
    /\ RunStarts =>
          /\ shared_data = ZeroData
          /\ LockFree(Cur.mutex)
          /\ \A l \in Locks : LockFree(l)
          /\ joined = 0
          /\ \A t \in Threads :
               /\ pc[t] = "idle" /\ i[t] = 0 /\ j[t] = 0 /\ pos[t] = 0
               /\ val[t] = 0 /\ counter[t] = 0 /\ sc[t] = U32Zero
               /\ cache[t] = ZeroData
          /\ ~overlap
    /\ \A a, b \in 1 .. Len(Runs(dry_run)) :
          a # b => Runs(dry_run)[a].mutex # Runs(dry_run)[b].mutex

\* The last run of the last line of a sweep without argument starts: all
\* other runs of the sweep have returned.
C20_Witness ==
    /\ RunStarts
    /\ ~dry_run
    /\ tp = Len(generate_tests)
    /\ run = Len(Runs(dry_run))

\* line_test has printed the line of the previous element of tests.
RowPrinted == mpc = "line" /\ tp > 1

\* The timing fields and the ratio fields of the printed line.
PrintedTimings == SubSeq(out, 4, 3 + Len(timings))

PrintedRatios == SubSeq(out, 4 + Len(timings), 3 + 2 * Len(timings))

\* The ratio timing / min_time prints as 1: the two are equal.
IsOne(r) == U32(r[1]) = r[2]

Ones == { k \in 1 .. Len(PrintedRatios) : IsOne(PrintedRatios[k]) }

\* The positions of the positive timings, and of the smallest of them.
Positive == { k \in 1 .. Len(PrintedTimings) : PrintedTimings[k] > 0 }

Fastest ==
    { k \in Positive : \A m \in Positive : PrintedTimings[k] <= PrintedTimings[m] }

Denominators == { PrintedRatios[k][2] : k \in 1 .. Len(PrintedRatios) }

\* The smallest timing of the line.
SmallestTiming ==
    CHOOSE v \in { PrintedTimings[k] : k \in 1 .. Len(PrintedTimings) } :
        \A k \in 1 .. Len(PrintedTimings) : v <= PrintedTimings[k]

LinePrinted == mpc = "line" /\ tp > 1

LineIndex == tp - 1

LineGroup == ((LineIndex - 1) \div 16) + 1

\* C23: generate_tests returns 128 tuples, 8 groups in the order of the
\* table with threadCount 1, ..., 16 in each; a tuple of the group with base
\* B and work size W has outOfBusyLoopCount = W and perfCount = floor(B /
\* threadCount): perfCount >= 1 and B - threadCount < perfCount *
\* threadCount <= B.
C23_TestsTable ==
    /\ Len(FullTests) = 128
    /\ Len(FullLparms) = 8
    /\ LinePrinted =>
          LET threadCount == out[1]
              perfCount == out[2]
              B == FullLparms[LineGroup][1]
              W == FullLparms[LineGroup][2]
          IN  /\ LineGroup \in 1 .. 8
              /\ threadCount = ((LineIndex - 1) % 16) + 1
              /\ out[3] = W
              /\ perfCount >= 1
              /\ perfCount * threadCount <= B
              /\ B - threadCount < perfCount * threadCount
              /\ B < (perfCount + 1) * threadCount

\* The last tuple of the table has been printed: 16 threads on the base
\* 400000, which 16 divides.
C23_Witness ==
    /\ LinePrinted
    /\ LineIndex = 128
    /\ out = << 16, 25000, 10000 >>

\* Some worker is inside lock() while the lock of the run is free.
FreeAndWanted ==
    /\ TimerRunning
    /\ LockFree(Cur.mutex)
    /\ \E t \in Threads : pc[t] = "lock"

\* performance_test has returned its elapsed time to all_timings.
RunReturned == mpc \in { "perf", "print" }

\* C24: under a fair scheduler, in every run of the sweep (every lock
\* variant, every threadCount and perfCount) no state before the exit of
\* main is a deadlock; every run that starts eventually returns from
\* performance_test, with every worker returned from check_func after
\* perfCount iterations; whenever the lock is free while a worker is inside
\* lock(), some worker eventually holds it; and main eventually returns 0.
C24_Termination ==
    /\ [](mpc # "exited" => ENABLED Next)
    /\ RunStarts ~> (/\ RunReturned
                     /\ \A t \in 1 .. Test.threadCount :
                          pc[t] = "done" /\ i[t] = Test.perfCount)
    /\ FreeAndWanted ~> (\E t \in Threads : Holding(t))
    /\ <>(mpc = "exited" /\ exit_code = "0")

\* Two workers are inside lock() on a free spinlock, one of them after a
\* failed attempt.
C24_Witness ==
    /\ FreeAndWanted
    /\ SpinLockRun
    /\ \E t, u \in Threads :
         /\ t # u
         /\ pc[t] = "lock" /\ pc[u] = "lock"
         /\ fails[t] > 0

\* C25: in every lock() call on sl_futex (Futex<n>, n = SlSpin >= 2), also
\* in the later calls of a worker, sc is n - k after k < n failed attempts
\* and the call has not yielded; after the n-th failed attempt it has
\* yielded exactly once.
C25_FirstYieldAtSpinCount ==
    Cur.mutex = "sl_futex" =>
        \A t \in Threads :
            /\ pc[t] = "lock" =>
                  /\ fails[t] < SlSpin => sc[t] = U32(SlSpin - fails[t])
                  /\ fails[t] = SlSpin => sc[t] = U32Zero
            /\ (pc[t] = "lock" \/ JustAcquired(t)) =>
                  /\ fails[t] < SlSpin => yields[t] = 0
                  /\ fails[t] = SlSpin => yields[t] = 1

\* A worker's second lock() call on sl_futex has failed n times.
C25_Witness ==
    /\ Cur.mutex = "sl_futex"
    /\ \E t \in Threads :
         /\ i[t] >= 1
         /\ pc[t] = "lock"
         /\ fails[t] = SlSpin /\ yields[t] = 1

\* Worker t's compare-exchange has failed in this step.
AttemptFails(t) == pc[t] = "lock" /\ fails'[t] = fails[t] + 1

\* C26: in lock() of a Futex other than the no-op one, an exchange that
\* fails, on a held lock or spuriously on a free one, leaves m_owned as it
\* was and the caller inside lock(), where it can attempt again (as long as
\* the model follows the call); an exchange that succeeds leaves the loop
\* at once; so lock() returns in exactly the steps in which an exchange of
\* the caller turns m_owned from false to true.
C26_RetryLogic ==
    /\ \A mem, spurious \in BOOLEAN :
          LET r == compare_exchange_weak(mem, FALSE, TRUE, spurious)
          IN  /\ r.ok => ~mem /\ r.mem /\ ~LoopAgain(r)
              /\ ~r.ok => r.mem = mem /\ LoopAgain(r)
    /\ [](SpinLockRun =>
            \A t \in Threads :
                (pc[t] = "lock" /\ fails[t] < MaxFails) => ENABLED LockAttempt(t))
    /\ [][ SpinLockRun =>
             /\ \A t \in Threads :
                  /\ AttemptFails(t) =>
                        /\ pc'[t] = "lock"
                        /\ m_owned' = m_owned
                  /\ LockReturns(t) =>
                        /\ ~m_owned[Cur.mutex] /\ m_owned'[Cur.mutex]
                        /\ fails'[t] = fails[t]
             /\ (~m_owned[Cur.mutex] /\ m_owned'[Cur.mutex]) =>
                  \E t \in Threads : LockReturns(t) ]_vars

\* The only worker of a run has returned from a lock() in which an attempt
\* had failed spuriously.
C26_Witness ==
    /\ SpinLockRun
    /\ Test.threadCount = 1
    /\ JustAcquired(1)
    /\ fails[1] > 0
    /\ m_owned[Cur.mutex]

\* The positions the loops of check_func and checkSharedData visit.
Sampled == { p \in 0 .. (DataSize - 1) : p % (DataSize \div ChangeCount) = 0 }

\* C27: in a run on a lock other than the no-op one, whenever no worker is
\* between lock() and unlock(), every sampled position of shared_data holds
\* the number of critical sections completed so far and every other
\* position holds 0; there are CHANGE_COUNT sampled positions.
C27_SampledPositions ==
    (mpc \in { "spawn", "join", "verify" } /\ Cur.mutex # "dry" /\ Holders = {}) =>
        /\ Cardinality(Sampled) = ChangeCount
        /\ \A p \in 0 .. (DataSize - 1) :
             shared_data[p] = IF p \in Sampled THEN CriticalSections ELSE 0

\* C28: for every lock, the no-op one included, and every interleaving of
\* the reads and writes of shared_data[pos]++, the sum over the sampled
\* positions after the join is at most perfCount * threadCount *
\* CHANGE_COUNT; a mismatch that is reported is a sum below that product.
C28_TotalAtMostExpected ==
    /\ mpc = "verify" => checkSharedData(shared_data) <= Paragon(Test)
    /\ mpc = "terminated" => what.fullCount < what.paragon

\* The workers of a run have joined and increments have been lost.
C28_Witness ==
    /\ mpc = "verify"
    /\ checkSharedData(shared_data) > 0
    /\ checkSharedData(shared_data) < Paragon(Test)

\* a * b <= limit, without forming the product.
ProductAtMost(a, b, limit) == b = 0 \/ a <= limit \div b

\* C29: for the tuple of every line of the source's sweep, the values an
\* int counter reaches in a run fit an int: a sampled position (at most
\* perfCount * threadCount), the expected total perfCount * threadCount *
\* CHANGE_COUNT, a counter of the critical sections of one worker
\* (perfCount), and dummy, which starts at 1 and is incremented
\* outOfBusyLoopCount times in each of the perfCount iterations.
C29_NoIntOverflow ==
    LinePrinted =>
        LET threadCount == out[1]
            perfCount == out[2]
            outOfBusyLoopCount == out[3]
        IN  /\ perfCount <= IntMax
            /\ ProductAtMost(perfCount, threadCount, IntMax)
            /\ ProductAtMost(perfCount * threadCount, CHANGE_COUNT, IntMax)
            /\ ProductAtMost(perfCount, outOfBusyLoopCount, IntMax - 1)

\* C30: in each mode, every line line_test prints has as many fields as the
\* header main prints for that mode: the three parameters, and a timing
\* and a ratio for each run of the line.
C30_RowMatchesHeader ==
    RowPrinted =>
        /\ Len(out) = 3 + 2 * Len(StatedOrder)
        /\ Len(out) = Len(Header(dry_run))

\* The step is a call of push_back(uint32_t) or set_at(size_t, uint32_t)
\* that returned.
Wrote ==
    /\ call'.op \in { "push_back", "set_at" }
    /\ ret'.thrown = "none"
    /\ << m_string, call, ret >> # << m_string', call', ret' >>

\* The positions of the string before the step, but the written one.
Kept == { k \in 0 .. (size(m_string) - 1) : k # call'.pos }

\* C31: after push_back(uint32 chr) or set_at(pos, uint32 chr), char_size()
\* is 4 if chr >= 0x10000 and at least 2 if chr >= 0x100; char_size() never
\* decreases under these operations; the promotion leaves size() and every
\* previously stored character value unchanged; get_at at the written
\* position returns chr.
C31_WidthPromotion ==
    [][ /\ call'.op \in { "push_back", "set_at" }
            => m_string'.char_size >= m_string.char_size
        /\ Wrote =>
            /\ AtLeast10000(call'.chr) => m_string'.char_size = 4
            /\ AtLeast100(call'.chr) => m_string'.char_size >= 2
            /\ size(m_string') = IF call'.op = "push_back"
                                 THEN size(m_string) + 1
                                 ELSE size(m_string)
            /\ \A k \in Kept :
                  get_at(m_string', k, build) = get_at(m_string, k, build)
            /\ get_at(m_string', call'.pos, build) = call'.chr ]_vars

\* The characters of a string, as get_at returns them.
Characters(s) == [ k \in 1 .. size(s) |-> get_at(s, k - 1, build) ]

\* min(pos + len, size()) of the last call.
SubstrEnd ==
    IF call.len >= size(m_string) - call.pos THEN size(m_string)
    ELSE call.pos + call.len

\* C32: substr(pos, len), for every string, every pos <= size() and every
\* len, returns exactly the characters at the positions pos ..
\* min(pos + len, size()) - 1 of the original, in order; the only error is
\* invalid_argument, raised exactly when pos > size().
C32_Substr ==
    call.op = "substr" =>
        IF call.pos > size(m_string) THEN ret.thrown = "invalid_argument"
        ELSE /\ ret.thrown = "none"
             /\ Characters(ret.value)
                    = SubSeq(Characters(m_string), call.pos + 1, SubstrEnd)

====
